---------------------------- MODULE Spec2Model ----------------------------
(***************************************************************************)
(* Reflectub: mirror the repositories of a GitHub account into local bare  *)
(* git repositories and keep an SQLite catalog of what was last seen.      *)
(*                                                                         *)
(* The model follows src/src/main.rs (run, process_repo, mirror, update,   *)
(* update_mtime, set_agefile_time), src/src/database.rs (Repo::from and    *)
(* the Db queries) and src/src/git.rs (the libgit2 calls).                 *)
(*                                                                         *)
(* Strings that the program only stores or compares are modelled as        *)
(* strings.  An Option<T> is a sequence of length 0 (None) or 1 (Some).    *)
(* A timestamp string is a record: either an RFC 3339 text giving a local  *)
(* wall-clock second `loc`, a fraction `frac` in milliseconds and a UTC     *)
(* offset `off` in seconds, or a text that is no RFC 3339 timestamp        *)
(* (ok = FALSE; `loc` then only tells two such texts apart).               *)
(***************************************************************************)
EXTENDS Integers, Sequences, FiniteSets, TLC

\* ------------------------------------------------------------------ bounds

\* Largest wall-clock second of a timestamp text.
MaxSec == 1
\* Most repositories in one fetched list (one rayon job each).
MaxRepos == 2
\* Most invocations of the program in one behaviour.
MaxRuns == 2

\* ----------------------------------------------------------------- domains

None == << >>
Some(x) == << x >>

Fracs == {0, 500}
Offsets == {0, 1}

\* RFC 3339 texts, and two texts that are no timestamps.
GoodTimes == [ok : {TRUE}, loc : 0..MaxSec, frac : Fracs, off : Offsets]
BadTimes == [ok : {FALSE}, loc : {0, 1}, frac : {0}, off : {0}]
TimeStrings == GoodTimes \cup BadTimes

Branches == {"master", "main"}

\* ------------------------------------------------------- timestamp parsing

\* chrono::DateTime::parse_from_rfc3339(s).ok(): the instant in milliseconds.
parse_from_rfc3339(s) ==
    IF s.ok THEN Some((s.loc - s.off) * 1000 + s.frac) ELSE None

\* SQLite datetime(s): the UTC time as 'YYYY-MM-DD HH:MM:SS', whole seconds,
\* the fraction dropped; NULL (None) for a text it cannot parse.  Two such
\* values compare as their seconds do.
datetime(s) ==
    IF s.ok THEN Some(s.loc - s.off) ELSE None

\* ------------------------------------------------ database::Repo::from

\* Repo::from panics: an unwrap() of None in the second branch.
FromPanics(repo) ==
    LET repo_updated_at == parse_from_rfc3339(repo.updated_at)
        repo_pushed_at == parse_from_rfc3339(repo.pushed_at)
    IN  /\ ~(repo_updated_at = None /\ repo_pushed_at = None)
        /\ (repo_pushed_at = None \/ repo_updated_at = None)

\* A plausible slip: the push time wins a tie.
FromUpdatedAtTie(repo) ==
    LET repo_updated_at == parse_from_rfc3339(repo.updated_at)
        repo_pushed_at == parse_from_rfc3339(repo.pushed_at)
    IN  IF repo_updated_at = None /\ repo_pushed_at = None
        THEN repo.updated_at
        ELSE IF repo_pushed_at[1] >= repo_updated_at[1]
             THEN repo.pushed_at
             ELSE repo.updated_at

\* The `updated_at` that Repo::from computes (defined when it does not panic).
FromUpdatedAt(repo) ==
    LET repo_updated_at == parse_from_rfc3339(repo.updated_at)
        repo_pushed_at == parse_from_rfc3339(repo.pushed_at)
    IN  IF repo_updated_at = None /\ repo_pushed_at = None
        THEN repo.updated_at
        ELSE IF repo_pushed_at[1] > repo_updated_at[1]
             THEN repo.pushed_at
             ELSE repo.updated_at

\* database::Repo::from(&github::Repo).
RepoFrom(repo) ==
    [ id |-> repo.id,
      name |-> Some(repo.name),
      description |-> repo.description,
      default_branch |-> Some(repo.default_branch),
      updated_at |-> Some(FromUpdatedAt(repo)) ]

\* Repo::description(): the description, or "" for None.
description(r) == IF r.description = None THEN "" ELSE r.description[1]


\* ------------------------------------------------------------ the catalog
\* The `repositories` table: a set of rows.  `id INTEGER PRIMARY KEY` and the
\* unique index of Db::create make an INSERT of a present id fail.

\* Db::repo_get: the row with this id, or None (QueryReturnedNoRows).
repo_get(cat, id) ==
    IF \E row \in cat : row.id = id
    THEN Some(CHOOSE row \in cat : row.id = id)
    ELSE None

\* A plausible slip: the table has no key, no INSERT is refused.
InsertConflictsNever(cat, repo) == FALSE

\* Whether the INSERT of Db::repo_insert violates the primary key.
InsertConflicts(cat, repo) == \E row \in cat : row.id = repo.id

\* Db::repo_insert, when the INSERT is accepted.
repo_insert(cat, repo) == cat \cup {repo}

\* A plausible slip: NULL is taken to be later than every time.
SqlLessNullLast(a, b) == a # None /\ (b = None \/ a[1] < b[1])

\* SQL `a < b` on two datetime() values: NULL operands make it not true.
SqlLess(a, b) == a # None /\ b # None /\ a[1] < b[1]

\* The order of two time texts as strings.  A timestamp is written
\* 1970-01-01T00:00:0<loc>[.5]+00:0<off> and begins with a digit; a text that
\* is no timestamp begins with a letter.
TextKey(s) == << IF s.ok THEN 0 ELSE 1, s.loc, s.frac, s.off >>

TextLess(a, b) ==
    \E k \in 1..4 :
        /\ TextKey(a)[k] < TextKey(b)[k]
        /\ \A j \in 1..(k - 1) : TextKey(a)[j] = TextKey(b)[j]

\* A plausible slip: the texts are compared, without datetime().
repo_is_updatedText(cat, repo) ==
    \E row \in cat :
        /\ row.id = repo.id
        /\ TextLess(row.updated_at[1], repo.updated_at[1])

\* A plausible slip: `<=` in the WHERE clause.
repo_is_updatedOrSame(cat, repo) ==
    \E row \in cat :
        /\ row.id = repo.id
        /\ datetime(row.updated_at[1]) # None
        /\ datetime(repo.updated_at[1]) # None
        /\ datetime(row.updated_at[1])[1] <= datetime(repo.updated_at[1])[1]

\* Db::repo_is_updated: SELECT 1 ... WHERE id = ? AND
\* datetime(updated_at) < datetime(?) returned a row.
repo_is_updated(cat, repo) ==
    \E row \in cat :
        /\ row.id = repo.id
        /\ SqlLess(datetime(row.updated_at[1]), datetime(repo.updated_at[1]))

\* Db::repo_update: UPDATE ... WHERE id = ?; no row matching is no error.
repo_update(cat, repo) ==
    {IF row.id = repo.id THEN repo ELSE row : row \in cat}

\* ------------------------------------------------------- the size filter

\* A plausible slip: a repository of exactly the maximum size is oversize.
is_repo_oversizeOrEqual(size_kilobytes, max_repo_size_bytes) ==
    LET size_bytes == size_kilobytes * 1000
    IN  size_bytes >= max_repo_size_bytes

\* is_repo_oversize(size_kilobytes, max_repo_size_bytes).
is_repo_oversize(size_kilobytes, max_repo_size_bytes) ==
    LET size_bytes == size_kilobytes * 1000
    IN  size_bytes > max_repo_size_bytes

\* ------------------------------------------------------------ the mirrors

\* clone_path: <root>/<name>.git, or <root>/fork/<name>.git for a fork.
clone_path(repo) ==
    IF repo.fork
    THEN [sub |-> "fork", git_dir |-> repo.name]
    ELSE [sub |-> ".", git_dir |-> repo.name]

\* What a path holds before anything was mirrored there.
NoMirror ==
    [ init |-> FALSE,          \* a bare repository (description, info/)
      hasRemote |-> FALSE,     \* remote "origin" is configured
      description |-> "",      \* content of the description file
      head |-> "master",       \* branch HEAD points at
      cgitrc |-> << >>,        \* lines of the repo-local cgitrc
      loose |-> {},            \* branches with a file under refs/heads
      packed |-> FALSE,        \* packed-refs exists
      refMt |-> [b \in Branches |-> None],  \* mtime set on a ref file
      packedMt |-> None,       \* mtime set on packed-refs
      webdir |-> FALSE,        \* info/web exists
      agefile |-> None ]       \* lines of info/web/last-modified

\* The ref files a fetch can leave for the default branch: a loose ref file,
\* packed-refs, both, or neither (an empty repository).
Layouts == [loose : BOOLEAN, packed : BOOLEAN]

\* A fetch wrote the refs: their files carry the local time again.
Fetched(m, branch, layout) ==
    [m EXCEPT !.loose = IF layout.loose THEN {branch} ELSE {},
              !.packed = layout.packed,
              !.refMt = [b \in Branches |-> None],
              !.packedMt = None]

\* A step of a pipeline acts on [m, log, err, env]: the mirror, the calls made
\* so far, the error returned ("" while none) and whether the error was the
\* collaborator's (a fault of the file system, the network or libgit2).
Call(st, op) == [st EXCEPT !.log = Append(@, op)]
Raise(st, e, byEnv) == [st EXCEPT !.err = e, !.env = byEnv]

DefbranchLine(b) == IF b = "master" THEN "defbranch=master" ELSE "defbranch=main"

\* repo_cgitrc_set_defbranch -> repo_cgitrc_append: create or append.
repo_cgitrc_set_defbranch(st, default_branch, fault) ==
    IF st.err # "" THEN st
    ELSE LET c == Call(st, "cgitrc_defbranch")
         IN  IF fault = "cgitrc" THEN Raise(c, "cgitrc", TRUE)
             ELSE [c EXCEPT !.m.cgitrc = Append(@, DefbranchLine(default_branch))]

\* set_agefile_time: DirBuilder::create of info/web (not recursive: it fails
\* when info/ is missing and when info/web exists), then create-or-truncate
\* info/web/last-modified and writeln! the time text.
set_agefile_time(st, update_time, fault) ==
    LET c == Call(st, "agefile")
    IN  IF fault = "agefile" THEN Raise(c, "agefile", TRUE)
        ELSE IF ~c.m.init \/ c.m.webdir THEN Raise(c, "agefile_dir", FALSE)
        ELSE [c EXCEPT !.m.webdir = TRUE, !.m.agefile = Some(<< update_time >>)]

\* A plausible slip: an error at the ref file is kept and returned only after
\* packed-refs was tried, and one at packed-refs after the age file.
update_mtimeFallsThrough(st, repo, fault) ==
    IF st.err # "" THEN st
    ELSE LET update_time == parse_from_rfc3339(repo.pushed_at)
             ref == Call(st, "set_ref_mtime")
             packed == Call(ref, "set_packed_mtime")
         IN  IF update_time = None THEN Raise(st, "parse_pushed_at", FALSE)
             ELSE IF fault = "ref"
                  THEN Raise([packed EXCEPT !.m.packedMt =
                                 IF st.m.packed THEN update_time ELSE @],
                             "ref", TRUE)
             ELSE IF repo.default_branch \in st.m.loose
                  THEN [ref EXCEPT !.m.refMt[repo.default_branch] = update_time]
             ELSE IF fault = "packed"
                  THEN Raise(set_agefile_time(packed, repo.pushed_at, "none"),
                             "packed", TRUE)
             ELSE IF st.m.packed
                  THEN [packed EXCEPT !.m.packedMt = update_time]
             ELSE set_agefile_time(packed, repo.pushed_at, fault)

\* A plausible slip: the update time is projected, not the push time.
update_mtimeUpdatedAt(st, repo, fault) ==
    IF st.err # "" THEN st
    ELSE LET update_time == parse_from_rfc3339(repo.updated_at)
             ref == Call(st, "set_ref_mtime")
             packed == Call(ref, "set_packed_mtime")
         IN  IF update_time = None THEN Raise(st, "parse_pushed_at", FALSE)
             ELSE IF fault = "ref" THEN Raise(ref, "ref", TRUE)
             ELSE IF repo.default_branch \in st.m.loose
                  THEN [ref EXCEPT !.m.refMt[repo.default_branch] = update_time]
             ELSE IF fault = "packed" THEN Raise(packed, "packed", TRUE)
             ELSE IF st.m.packed
                  THEN [packed EXCEPT !.m.packedMt = update_time]
             ELSE set_agefile_time(packed, repo.updated_at, fault)

\* A plausible slip: packed-refs is tried before the ref file.
update_mtimePackedFirst(st, repo, fault) ==
    IF st.err # "" THEN st
    ELSE LET update_time == parse_from_rfc3339(repo.pushed_at)
             packed == Call(st, "set_packed_mtime")
             ref == Call(packed, "set_ref_mtime")
         IN  IF update_time = None THEN Raise(st, "parse_pushed_at", FALSE)
             ELSE IF fault = "packed" THEN Raise(packed, "packed", TRUE)
             ELSE IF st.m.packed
                  THEN [packed EXCEPT !.m.packedMt = update_time]
             ELSE IF fault = "ref" THEN Raise(ref, "ref", TRUE)
             ELSE IF repo.default_branch \in st.m.loose
                  THEN [ref EXCEPT !.m.refMt[repo.default_branch] = update_time]
             ELSE set_agefile_time(ref, repo.pushed_at, fault)

\* update_mtime(repo_path, repo): parse repo.pushed_at, then set the times of
\* refs/heads/<default_branch>; when that file is not found, of packed-refs;
\* when that is not found either, write the agefile.  `fault` makes the step
\* it names fail with an error other than NotFound.
update_mtime(st, repo, fault) ==
    IF st.err # "" THEN st
    ELSE LET update_time == parse_from_rfc3339(repo.pushed_at)
             ref == Call(st, "set_ref_mtime")
             packed == Call(ref, "set_packed_mtime")
         IN  IF update_time = None THEN Raise(st, "parse_pushed_at", FALSE)
             ELSE IF fault = "ref" THEN Raise(ref, "ref", TRUE)
             ELSE IF repo.default_branch \in st.m.loose
                  THEN [ref EXCEPT !.m.refMt[repo.default_branch] = update_time]
             ELSE IF fault = "packed" THEN Raise(packed, "packed", TRUE)
             ELSE IF st.m.packed
                  THEN [packed EXCEPT !.m.packedMt = update_time]
             ELSE set_agefile_time(packed, repo.pushed_at, fault)

\* git::mirror(url, path, description, default_branch): init_opts (bare, with
\* the description; an existing repository is re-initialised and keeps its
\* files), remote_with_fetch "origin" (fails when the remote exists), the
\* mirror flag, fetch, and set_head unless the branch is "master".  A failure
\* leaves what the earlier calls did.
git_mirror(st, repo, fault, layout) ==
    LET c == Call(st, "git_mirror")
        created == IF c.m.init THEN c
                   ELSE [c EXCEPT !.m = [NoMirror EXCEPT
                                            !.init = TRUE,
                                            !.description = description(repo)]]
        remoted == [created EXCEPT !.m.hasRemote = TRUE]
        fetched == [remoted EXCEPT
                       !.m = Fetched(@, repo.default_branch, layout)]
    IN  IF fault = "init" THEN Raise(c, "MirrorCreateRepo", TRUE)
        ELSE IF fault = "remote" THEN Raise(created, "MirrorAddRemote", TRUE)
        ELSE IF created.m.hasRemote THEN Raise(created, "MirrorAddRemote", FALSE)
        ELSE IF fault = "fetch" THEN Raise(remoted, "MirrorFetch", TRUE)
        ELSE IF repo.default_branch = "master" THEN fetched
        ELSE IF fault = "head" THEN Raise(fetched, "GitChangeBranch", TRUE)
        ELSE [fetched EXCEPT !.m.head = repo.default_branch]

\* A plausible slip: a failed copy of the base cgitrc is not returned.
copy_cgitrcBestEffort(st, base_cgitrc, fault) ==
    IF st.err # "" \/ ~base_cgitrc THEN st
    ELSE LET c == Call(st, "copy_cgitrc")
         IN  IF fault = "copy" THEN c
             ELSE [c EXCEPT !.m.cgitrc = << "base" >>]

\* fs::copy of the base cgitrc over <clone_path>/cgitrc.
copy_cgitrc(st, base_cgitrc, fault) ==
    IF st.err # "" \/ ~base_cgitrc THEN st
    ELSE LET c == Call(st, "copy_cgitrc")
         IN  IF fault = "copy" THEN Raise(c, "copy_cgitrc", TRUE)
             ELSE [c EXCEPT !.m.cgitrc = << "base" >>]

\* main.rs mirror(clone_path, repo, base_cgitrc).
mirror(st, repo, base_cgitrc, fault, layout) ==
    LET cloned == git_mirror(st, repo, fault, layout)
        copied == copy_cgitrc(cloned, base_cgitrc, fault)
        branched == IF repo.default_branch # "master"
                    THEN repo_cgitrc_set_defbranch(copied, repo.default_branch, fault)
                    ELSE copied
    IN  update_mtime(branched, repo, fault)

\* git::update(path): open_bare, then fetch every remote with pruning.
git_update(st, repo, fault, layout) ==
    LET c == Call(st, "git_update")
    IN  IF ~c.m.init THEN Raise(c, "UpdateOpenRepo", FALSE)
        ELSE IF ~c.m.hasRemote THEN c
        ELSE IF fault = "fetch" THEN Raise(c, "UpdateFetch", TRUE)
        ELSE [c EXCEPT !.m = Fetched(@, repo.default_branch, layout)]

\* git::update_description: open the description file (it must exist),
\* truncate it, and write the description unless it is empty.
update_description(st, text, fault) ==
    IF st.err # "" THEN st
    ELSE LET c == Call(st, "update_description")
         IN  IF fault = "desc" THEN Raise(c, "update_description", TRUE)
             ELSE IF ~c.m.init THEN Raise(c, "update_description", FALSE)
             ELSE [c EXCEPT !.m.description = text]

\* git::change_current_branch: open_bare and set_head.
change_current_branch(st, default_branch, fault) ==
    IF st.err # "" THEN st
    ELSE LET c == Call(st, "change_current_branch")
         IN  IF fault = "head" THEN Raise(c, "change_current_branch", TRUE)
             ELSE IF ~c.m.init THEN Raise(c, "change_current_branch", FALSE)
             ELSE [c EXCEPT !.m.head = default_branch]

\* A plausible slip: the sidecar's defbranch is written before HEAD is
\* switched.
updateSidecarFirst(st, current_repo, updated_repo, fault, layout) ==
    LET fetched == git_update(st, updated_repo, fault, layout)
        remote_description == description(updated_repo)
        described == IF description(current_repo) # remote_description
                     THEN update_description(fetched, remote_description, fault)
                     ELSE fetched
        branched ==
            IF /\ current_repo.default_branch # None
               /\ current_repo.default_branch[1] # updated_repo.default_branch
            THEN change_current_branch(
                     repo_cgitrc_set_defbranch(described,
                                               updated_repo.default_branch,
                                               fault),
                     updated_repo.default_branch, fault)
            ELSE described
    IN  update_mtime(branched, updated_repo, fault)

\* main.rs update(repo_path, current_repo, updated_repo).
update(st, current_repo, updated_repo, fault, layout) ==
    LET fetched == git_update(st, updated_repo, fault, layout)
        remote_description == description(updated_repo)
        described == IF description(current_repo) # remote_description
                     THEN update_description(fetched, remote_description, fault)
                     ELSE fetched
        branched ==
            IF /\ current_repo.default_branch # None
               /\ current_repo.default_branch[1] # updated_repo.default_branch
            THEN repo_cgitrc_set_defbranch(
                     change_current_branch(described,
                                           updated_repo.default_branch, fault),
                     updated_repo.default_branch, fault)
            ELSE described
    IN  update_mtime(branched, updated_repo, fault)

\* ------------------------------------------------------------------ state

VARIABLES
    max_repo_size_bytes,  \* --skip-larger-than: Option<u64>
    base_cgitrc,          \* --cgitrc was given
    catalog,              \* the rows of the `repositories` table
    fs,                   \* the mirror under each clone path
    phase,                \* "idle", "running" or "exited": where run() is
    repos,                \* the list github::fetch_repos returned to this run
    w,                    \* one process_repo call per element of repos
    result,               \* how the run ended, and the errors it reported
    runs,                 \* invocations started so far
    again,                \* whether this run got the list of the run before,
                          \* and whether a collaborator failed in that run
    atStart,              \* the catalog and the mirrors when this run began
    probe                 \* a function applied on its own: argument, result

vars == << max_repo_size_bytes, base_cgitrc, catalog, fs, phase, repos, w,
           result, runs, again, atStart, probe >>

Names == {"a", "b"}
Paths == [sub : {".", "fork"}, git_dir : Names]

\* Faults the collaborators (libgit2, the file system, the network) can raise
\* inside one call of mirror() or update(); "none": they all succeed.
MirrorFaults == {"none", "init", "remote", "fetch", "head", "copy", "cgitrc",
                 "ref", "packed", "agefile"}
UpdateFaults == {"none", "fetch", "desc", "head", "cgitrc",
                 "ref", "packed", "agefile"}

\* A process_repo call that has not begun.
Fresh ==
    [ pc |-> "start", db_repo |-> None, cur |-> None, outcome |-> "",
      log |-> << >>, err |-> "", env |-> FALSE ]

NoResult == [kind |-> "none", errors |-> << >>]
NoProbe == [fn |-> "", arg |-> << >>, out |-> << >>]

Workers == DOMAIN w

\* process_repo returned: Ok(()) with the path it took, or Err.
Return(i, wi, outcome) ==
    w' = [w EXCEPT ![i] = [wi EXCEPT !.pc = "done", !.outcome = outcome]]

Failed(i, wi, op, e, byEnv) ==
    Return(i, [wi EXCEPT !.log = Append(@, op), !.err = e, !.env = byEnv],
           "Failed")

\* A sibling job panicked: rayon lets jobs that run finish, and may or may
\* not begin the others before the panic is resumed in run().
Panicked == \E i \in Workers : w[i].pc = "panicked"

\* ---------------------------------------------------------------- actions

\* run(): the arguments are parsed, fetch_repos, Db::connect and Db::create
\* succeeded (CREATE TABLE IF NOT EXISTS keeps the rows), par_iter begins.
StartRun(pool, maxLen) ==
    /\ phase \in {"idle", "exited"}
    /\ runs < MaxRuns
    /\ \E n \in 1..maxLen : \E list \in [1..n -> pool] :
          /\ repos' = list
          /\ w' = [i \in 1..n |-> Fresh]
          /\ again' = [same |-> (phase = "exited" /\ list = repos),
                        clean |-> \A i \in Workers : ~w[i].env]
    /\ phase' = "running"
    /\ runs' = runs + 1
    /\ result' = NoResult
    /\ atStart' = [catalog |-> catalog, fs |-> fs]
    /\ UNCHANGED << max_repo_size_bytes, base_cgitrc, catalog, fs, probe >>

\* The steps of run() before the jobs whose Err is returned with `?`: the
\* options (opts.parse, --database, parse_size), fetch_repos, Db::connect and
\* Db::create.  The text is the error's context.
RunSteps == {"options", "fetch_repos", "connect", "create"}

\* A plausible slip: Db::create drops the table before creating it.
RunAbortsDropping ==
    /\ phase \in {"idle", "exited"}
    /\ runs < MaxRuns
    /\ \E step \in RunSteps :
          /\ result' = [kind |-> "err", errors |-> << step >>]
          /\ catalog' = IF step = "create" THEN {} ELSE catalog
    /\ phase' = "exited"
    /\ runs' = runs + 1
    /\ repos' = << >>
    /\ w' = << >>
    /\ again' = [same |-> FALSE, clean |-> TRUE]
    /\ atStart' = [catalog |-> catalog, fs |-> fs]
    /\ UNCHANGED << max_repo_size_bytes, base_cgitrc, fs, probe >>

\* run() returns Err(MultiError::from(error)) at one of these steps: no job
\* is made, the list (if it was fetched) is dropped.
RunAborts ==
    /\ phase \in {"idle", "exited"}
    /\ runs < MaxRuns
    /\ \E step \in RunSteps :
          result' = [kind |-> "err", errors |-> << step >>]
    /\ phase' = "exited"
    /\ runs' = runs + 1
    /\ repos' = << >>
    /\ w' = << >>
    /\ again' = [same |-> FALSE, clean |-> TRUE]
    /\ atStart' = [catalog |-> catalog, fs |-> fs]
    /\ UNCHANGED << max_repo_size_bytes, base_cgitrc, catalog, fs, probe >>

\* main(): the exit status of the process for a result of run().  A panic
\* resumed in run() ends the process with Rust's status 101.
exit(r) ==
    IF r.kind = "ok" THEN 0
    ELSE IF r.kind = "err" THEN 70
    ELSE 101

\* process_repo up to the match on db.repo_get(id): the size filter,
\* clone_path, Repo::from, the lookup.
ProcessStart(i) ==
    /\ phase = "running"
    /\ w[i].pc = "start"
    /\ LET repo == repos[i]
       IN  IF /\ max_repo_size_bytes # None
              /\ is_repo_oversize(repo.size, max_repo_size_bytes[1])
           THEN Return(i, w[i], "Skipped")
           ELSE IF FromPanics(repo)
           THEN w' = [w EXCEPT ![i].pc = "panicked", ![i].outcome = "Panicked"]
           ELSE \E dbok \in BOOLEAN :
                LET db_repo == RepoFrom(repo)
                    got == repo_get(catalog, repo.id)
                    wi == [w[i] EXCEPT !.db_repo = Some(db_repo)]
                IN  IF ~dbok THEN Failed(i, wi, "repo_get", "db", TRUE)
                    ELSE w' = [w EXCEPT ![i] =
                               [wi EXCEPT !.log = Append(@, "repo_get"),
                                          !.cur = got,
                                          !.pc = IF got = None THEN "mirror"
                                                 ELSE "is_updated"]]
    /\ UNCHANGED << max_repo_size_bytes, base_cgitrc, catalog, fs, phase,
                    repos, result, runs, again, atStart, probe >>

\* Ok(current_repo) => if db.repo_is_updated(&db_repo)? { ... }
IsUpdated(i) ==
    /\ phase = "running"
    /\ w[i].pc = "is_updated"
    /\ \E dbok \in BOOLEAN :
          IF ~dbok THEN Failed(i, w[i], "repo_is_updated", "db", TRUE)
          ELSE LET wi == [w[i] EXCEPT !.log = Append(@, "repo_is_updated")]
               IN  IF repo_is_updated(catalog, w[i].db_repo[1])
                   THEN w' = [w EXCEPT ![i] = [wi EXCEPT !.pc = "update"]]
                   ELSE Return(i, wi, "Unchanged")
    /\ UNCHANGED << max_repo_size_bytes, base_cgitrc, catalog, fs, phase,
                    repos, result, runs, again, atStart, probe >>

\* A plausible slip: the Err of mirror() or update() is noted and not returned.
MutatedOnward(i, st, next) ==
    /\ fs' = [fs EXCEPT ![clone_path(repos[i])] = st.m]
    /\ w' = [w EXCEPT ![i] = [w[i] EXCEPT !.log = st.log, !.err = st.err,
                                          !.env = st.env, !.pc = next]]

\* The effect of a mirror() or update() call on the worker and its mirror.
Mutated(i, st, next) ==
    /\ fs' = [fs EXCEPT ![clone_path(repos[i])] = st.m]
    /\ IF st.err = ""
       THEN w' = [w EXCEPT ![i] = [w[i] EXCEPT !.log = st.log, !.pc = next]]
       ELSE Return(i, [w[i] EXCEPT !.log = st.log, !.err = st.err,
                                   !.env = st.env], "Failed")

Entering(i) ==
    [ m |-> fs[clone_path(repos[i])], log |-> w[i].log, err |-> "",
      env |-> FALSE ]

\* A plausible slip: the record is replaced before update() is known to have
\* succeeded.
UpdateRecordsFirst(i) ==
    /\ phase = "running"
    /\ w[i].pc = "update"
    /\ catalog' = repo_update(catalog, w[i].db_repo[1])
    /\ \E fault \in UpdateFaults, layout \in Layouts :
          Mutated(i, update(Entering(i), w[i].cur[1], repos[i], fault, layout),
                  "repo_update")
    /\ UNCHANGED << max_repo_size_bytes, base_cgitrc, phase, repos,
                    result, runs, again, atStart, probe >>

\* update(&path, &current_repo, &repo)?
Update(i) ==
    /\ phase = "running"
    /\ w[i].pc = "update"
    /\ \E fault \in UpdateFaults, layout \in Layouts :
          Mutated(i, update(Entering(i), w[i].cur[1], repos[i], fault, layout),
                  "repo_update")
    /\ UNCHANGED << max_repo_size_bytes, base_cgitrc, catalog, phase, repos,
                    result, runs, again, atStart, probe >>

\* db.repo_update(&db_repo)?
RepoUpdate(i) ==
    /\ phase = "running"
    /\ w[i].pc = "repo_update"
    /\ \E dbok \in BOOLEAN :
          IF ~dbok
          THEN /\ Failed(i, w[i], "repo_update", "db", TRUE)
               /\ UNCHANGED catalog
          ELSE /\ catalog' = repo_update(catalog, w[i].db_repo[1])
               /\ Return(i, [w[i] EXCEPT !.log = Append(@, "repo_update")],
                         "Refreshed")
    /\ UNCHANGED << max_repo_size_bytes, base_cgitrc, fs, phase, repos,
                    result, runs, again, atStart, probe >>

\* Err(QueryReturnedNoRows) => mirror(path, &repo, base_cgitrc)?
Mirror(i) ==
    /\ phase = "running"
    /\ w[i].pc = "mirror"
    /\ \E fault \in MirrorFaults, layout \in Layouts :
          Mutated(i, mirror(Entering(i), repos[i], base_cgitrc, fault, layout),
                  "repo_insert")
    /\ UNCHANGED << max_repo_size_bytes, base_cgitrc, catalog, phase, repos,
                    result, runs, again, atStart, probe >>

\* db.repo_insert(db_repo)?
RepoInsert(i) ==
    /\ phase = "running"
    /\ w[i].pc = "repo_insert"
    /\ \E dbok \in BOOLEAN :
          IF ~dbok
          THEN /\ Failed(i, w[i], "repo_insert", "db", TRUE)
               /\ UNCHANGED catalog
          ELSE IF InsertConflicts(catalog, w[i].db_repo[1])
          THEN /\ Failed(i, w[i], "repo_insert", "constraint", FALSE)
               /\ UNCHANGED catalog
          ELSE /\ catalog' = repo_insert(catalog, w[i].db_repo[1])
               /\ Return(i, [w[i] EXCEPT !.log = Append(@, "repo_insert")],
                         "Created")
    /\ UNCHANGED << max_repo_size_bytes, base_cgitrc, fs, phase, repos,
                    result, runs, again, atStart, probe >>

\* A job that had not begun when a sibling panicked is never run.
Abandon(i) ==
    /\ phase = "running"
    /\ w[i].pc = "start"
    /\ Panicked
    /\ w' = [w EXCEPT ![i].pc = "abandoned"]
    /\ UNCHANGED << max_repo_size_bytes, base_cgitrc, catalog, fs, phase,
                    repos, result, runs, again, atStart, probe >>

\* The names of the repositories whose process_repo returned Err, in the
\* order of the list: .filter(is_err).map(context(name)).collect().
RECURSIVE ErrorsFrom(_)
ErrorsFrom(i) ==
    IF i > Len(repos) THEN << >>
    ELSE IF w[i].outcome = "Failed"
         THEN << repos[i].name >> \o ErrorsFrom(i + 1)
         ELSE ErrorsFrom(i + 1)

\* par_iter ... collect() returns once every job ended; run() then returns
\* Err(MultiError) when there are errors, Ok(()) otherwise.  A panic of a job
\* is resumed here instead: run() does not return.
Join ==
    /\ phase = "running"
    /\ \A i \in Workers : w[i].pc \in {"done", "panicked", "abandoned"}
    /\ phase' = "exited"
    /\ result' = IF Panicked THEN [kind |-> "panic", errors |-> << >>]
                 ELSE IF Len(ErrorsFrom(1)) > 0
                      THEN [kind |-> "err", errors |-> ErrorsFrom(1)]
                      ELSE [kind |-> "ok", errors |-> << >>]
    /\ UNCHANGED << max_repo_size_bytes, base_cgitrc, catalog, fs, repos, w,
                    runs, again, atStart, probe >>

\* Repo::from applied to a descriptor.
ApplyFrom ==
    /\ probe.fn = "from"
    /\ probe.out = << >>
    /\ probe' = [probe EXCEPT !.out =
                    IF FromPanics(probe.arg[1]) THEN << "panic" >>
                    ELSE << "ok", RepoFrom(probe.arg[1]) >>]
    /\ UNCHANGED << max_repo_size_bytes, base_cgitrc, catalog, fs, phase,
                    repos, w, result, runs, again, atStart >>

\* update_mtime applied to a mirror and a descriptor.
ApplyMtime ==
    /\ probe.fn = "update_mtime"
    /\ probe.out = << >>
    /\ \E fault \in {"none", "ref", "packed", "agefile"} :
          probe' = [probe EXCEPT !.out =
                       << update_mtime([m |-> probe.arg[1], log |-> << >>,
                                        err |-> "", env |-> FALSE],
                                       probe.arg[2], fault) >>]
    /\ UNCHANGED << max_repo_size_bytes, base_cgitrc, catalog, fs, phase,
                    repos, w, result, runs, again, atStart >>

\* Db::repo_insert called on its own with a record.
ApplyRepoInsert(records) ==
    /\ probe.fn # "from"
    /\ \E repo \in records :
          IF InsertConflicts(catalog, repo)
          THEN /\ probe' = [fn |-> "repo_insert", arg |-> << repo >>,
                            out |-> << "err", "constraint" >>]
               /\ UNCHANGED catalog
          ELSE /\ probe' = [fn |-> "repo_insert", arg |-> << repo >>,
                            out |-> << "ok" >>]
               /\ catalog' = repo_insert(catalog, repo)
    /\ atStart' = [atStart EXCEPT !.catalog = catalog]
    /\ UNCHANGED << max_repo_size_bytes, base_cgitrc, fs, phase, repos, w,
                    result, runs, again >>

\* Db::repo_update called on its own with a record.
ApplyRepoUpdate(records) ==
    /\ probe.fn # "from"
    /\ \E repo \in records :
          /\ probe' = [fn |-> "repo_update", arg |-> << repo >>,
                       out |-> << "ok" >>]
          /\ catalog' = repo_update(catalog, repo)
    /\ atStart' = [atStart EXCEPT !.catalog = catalog]
    /\ UNCHANGED << max_repo_size_bytes, base_cgitrc, fs, phase, repos, w,
                    result, runs, again >>

\* Db::repo_is_updated called on its own with a record.
ApplyRepoIsUpdated(records) ==
    /\ probe.fn # "from"
    /\ \E repo \in records :
          probe' = [fn |-> "repo_is_updated", arg |-> << repo >>,
                    out |-> << "ok", repo_is_updated(catalog, repo) >>]
    /\ atStart' = [atStart EXCEPT !.catalog = catalog]
    /\ UNCHANGED << max_repo_size_bytes, base_cgitrc, catalog, fs, phase,
                    repos, w, result, runs, again >>

\* ----------------------------------------------------------- specifications

Descriptors(ids, names, descs, forks, branches, sizes, times) ==
    [ id : ids, name : names, description : descs, fork : forks,
      default_branch : branches, size : sizes,
      updated_at : times, pushed_at : times ]

\* Two RFC 3339 texts a second apart, and the text that is no timestamp.
Early == [ok |-> TRUE, loc |-> 0, frac |-> 0, off |-> 0]
Late == [ok |-> TRUE, loc |-> 1, frac |-> 0, off |-> 0]
Garbage == [ok |-> FALSE, loc |-> 0, frac |-> 0, off |-> 0]

\* The command lines: without options, and with --cgitrc and
\* --skip-larger-than 1000.
CommandLines ==
    { [max |-> None, cgitrc |-> FALSE], [max |-> Some(1000), cgitrc |-> TRUE] }

InitWith(cl) ==
    /\ max_repo_size_bytes = cl.max
    /\ base_cgitrc = cl.cgitrc
    /\ catalog = {}
    /\ fs = [p \in Paths |-> NoMirror]
    /\ phase = "idle"
    /\ repos = << >>
    /\ w = << >>
    /\ result = NoResult
    /\ runs = 0
    /\ again = [same |-> FALSE, clean |-> TRUE]
    /\ atStart = [catalog |-> {}, fs |-> [p \in Paths |-> NoMirror]]

Init ==
    /\ \E cl \in CommandLines : InitWith(cl)
    /\ probe = NoProbe

\* Spec: successive invocations on an account with one repository, whose
\* description, default branch, size and times change between invocations.
Pool ==
    Descriptors({1}, {"a"}, {None, Some("d")}, {FALSE}, Branches, {1, 2},
                {Early, Late, Garbage})

Next ==
    \/ StartRun(Pool, 1)
    \/ \E i \in Workers : ProcessStart(i)
    \/ \E i \in Workers : IsUpdated(i)
    \/ \E i \in Workers : Update(i)
    \/ \E i \in Workers : RepoUpdate(i)
    \/ \E i \in Workers : Mirror(i)
    \/ \E i \in Workers : RepoInsert(i)
    \/ Join

Spec == Init /\ [][Next]_vars

\* SpecTime: the same, on a repository of which only the times change, both
\* together, over every time text.
PoolTime ==
    { d \in Descriptors({1}, {"a"}, {None}, {FALSE}, {"master"}, {1},
                        TimeStrings) :
        d.pushed_at = d.updated_at }

NextTime ==
    \/ StartRun(PoolTime, 1)
    \/ \E i \in Workers : ProcessStart(i)
    \/ \E i \in Workers : IsUpdated(i)
    \/ \E i \in Workers : Update(i)
    \/ \E i \in Workers : RepoUpdate(i)
    \/ \E i \in Workers : Mirror(i)
    \/ \E i \in Workers : RepoInsert(i)
    \/ Join

SpecTime == Init /\ [][NextTime]_vars

\* SpecPar: one invocation on an account with up to MaxRepos repositories,
\* processed concurrently; two entries of the list may carry the same id or
\* the same name.
PoolPar ==
    { d \in Descriptors({1, 2}, {"a", "b"}, {None}, {FALSE}, {"master"}, {1},
                        {Early, Late, Garbage}) :
        d.updated_at \in {Early, Garbage} }

NextPar ==
    \/ (runs = 0 /\ RunAborts)
    \/ (runs = 0 /\ StartRun(PoolPar, MaxRepos))
    \/ \E i \in Workers : ProcessStart(i)
    \/ \E i \in Workers : IsUpdated(i)
    \/ \E i \in Workers : Update(i)
    \/ \E i \in Workers : RepoUpdate(i)
    \/ \E i \in Workers : Mirror(i)
    \/ \E i \in Workers : RepoInsert(i)
    \/ \E i \in Workers : Abandon(i)
    \/ Join

SpecPar == Init /\ [][NextPar]_vars

\* SpecLive: SpecPar with the scheduling of par_iter().collect(): rayon's
\* pool keeps taking the jobs of the list while there are any, every call a
\* job makes returns, and collect() returns once no job is left.
Work ==
    \/ \E i \in Workers : ProcessStart(i)
    \/ \E i \in Workers : IsUpdated(i)
    \/ \E i \in Workers : Update(i)
    \/ \E i \in Workers : RepoUpdate(i)
    \/ \E i \in Workers : Mirror(i)
    \/ \E i \in Workers : RepoInsert(i)
    \/ \E i \in Workers : Abandon(i)
    \/ Join

SpecLive == Init /\ [][NextPar]_vars /\ WF_vars(Work)

\* SpecRun: successive invocations, any of which may end at a step before the
\* jobs, on an account with one repository that is pushed to in between.
PoolRun ==
    { d \in Descriptors({1}, {"a"}, {None}, {FALSE}, Branches, {1},
                        {Early, Late}) :
        d.pushed_at = d.updated_at }

NextRun ==
    \/ RunAborts
    \/ StartRun(PoolRun, 1)
    \/ \E i \in Workers : ProcessStart(i)
    \/ \E i \in Workers : IsUpdated(i)
    \/ \E i \in Workers : Update(i)
    \/ \E i \in Workers : RepoUpdate(i)
    \/ \E i \in Workers : Mirror(i)
    \/ \E i \in Workers : RepoInsert(i)
    \/ Join

SpecRun == Init /\ [][NextRun]_vars

\* SpecAgain: successive invocations that begin either on nothing or on what
\* an earlier invocation's Create of the repository left, its record and its
\* mirror; the repository is described and pushed to in between, or reports
\* times that are no timestamps.
Mirrored ==
    [ id |-> 1, name |-> "a", description |-> None, fork |-> FALSE,
      default_branch |-> "master", size |-> 1,
      updated_at |-> Early, pushed_at |-> Early ]

Left ==
    { mirror([m |-> NoMirror, log |-> << >>, err |-> "", env |-> FALSE],
             Mirrored, FALSE, "none", layout).m : layout \in Layouts }

PoolAgain ==
    { d \in Descriptors({1}, {"a"}, {None, Some("d")}, {FALSE}, {"master"},
                        {1}, {Early, Late, Garbage}) :
        d.pushed_at = d.updated_at }

InitAgain ==
    /\ max_repo_size_bytes = None
    /\ base_cgitrc = FALSE
    /\ \E m \in {NoMirror} \cup Left :
          /\ fs = [p \in Paths |->
                      IF p = clone_path(Mirrored) THEN m ELSE NoMirror]
          /\ catalog = IF m = NoMirror THEN {} ELSE {RepoFrom(Mirrored)}
    /\ phase = "idle"
    /\ repos = << >>
    /\ w = << >>
    /\ result = NoResult
    /\ runs = 0
    /\ again = [same |-> FALSE, clean |-> TRUE]
    /\ atStart = [catalog |-> catalog, fs |-> fs]
    /\ probe = NoProbe

NextAgain ==
    \/ StartRun(PoolAgain, 1)
    \/ \E i \in Workers : ProcessStart(i)
    \/ \E i \in Workers : IsUpdated(i)
    \/ \E i \in Workers : Update(i)
    \/ \E i \in Workers : RepoUpdate(i)
    \/ \E i \in Workers : Mirror(i)
    \/ \E i \in Workers : RepoInsert(i)
    \/ Join

SpecAgain == InitAgain /\ [][NextAgain]_vars

\* SpecDb: the Db queries called in any order on a Catalog that starts
\* empty.  The records written are those Repo::from makes of a descriptor
\* whose time parses: the repository under every time text, and the same
\* repository renamed, described and with another default branch.  The
\* candidates compared also have the unparsable times.
PoolDb ==
    { d \in Descriptors({1, 2}, Names, {None, Some("d")}, {FALSE}, Branches,
                        {1}, GoodTimes) :
        /\ d.pushed_at = d.updated_at
        /\ \/ /\ d.name = "a"
              /\ d.description = None
              /\ d.default_branch = "master"
           \/ /\ d.name = "b"
              /\ d.description = Some("d")
              /\ d.default_branch = "main"
              /\ d.updated_at = Early }

Written == {RepoFrom(d) : d \in PoolDb}

Candidates ==
    Written \cup {RepoFrom(d) :
                    d \in {e \in Descriptors({1, 2}, {"a"}, {None}, {FALSE},
                                             {"master"}, {1}, BadTimes) :
                             e.pushed_at = e.updated_at}}

NextDb ==
    \/ ApplyRepoInsert(Written)
    \/ ApplyRepoUpdate(Written)
    \/ ApplyRepoIsUpdated(Candidates)

InitDb ==
    /\ InitWith([max |-> None, cgitrc |-> FALSE])
    /\ probe = NoProbe

SpecDb == InitDb /\ [][NextDb]_vars

\* SpecFrom: Repo::from on every pair of time texts.
InitFrom ==
    /\ InitWith([max |-> None, cgitrc |-> FALSE])
    /\ \E d \in Descriptors({1}, {"a"}, {None, Some("d")}, {FALSE}, Branches,
                            {1}, TimeStrings) :
          probe = [fn |-> "from", arg |-> << d >>, out |-> << >>]

SpecFrom == InitFrom /\ [][ApplyFrom]_vars

\* SpecMtime: update_mtime on a mirror after its fetch, with or without an
\* agefile left by an earlier projection.
ProbeMirrors ==
    { [NoMirror EXCEPT !.init = TRUE, !.hasRemote = TRUE,
                       !.loose = IF l.loose THEN {b} ELSE {},
                       !.packed = l.packed,
                       !.webdir = (age # None),
                       !.agefile = age] :
        l \in Layouts, b \in Branches,
        age \in {None} \cup {Some(<< t >>) : t \in {Early}} }

InitMtime ==
    /\ InitWith([max |-> None, cgitrc |-> FALSE])
    /\ \E m \in ProbeMirrors :
       \E d \in Descriptors({1}, {"a"}, {None}, {FALSE}, Branches, {1},
                            {Late, Garbage}) :
          probe = [fn |-> "update_mtime", arg |-> << m, d >>, out |-> << >>]

SpecMtime == InitMtime /\ [][ApplyMtime]_vars

\* ------------------------------------------------------------------ claims
\* The claims about one repository's outcome are read as the spec's pipeline
\* reads them: about a descriptor that passed the size filter, in a pipeline
\* none of whose collaborator calls (catalog, libgit2, file system) failed.

\* process_repo returned for job i, or unwound.
Ended(i) == w[i].pc \in {"done", "panicked"}

\* The descriptor's size, reported in kilobytes, as bytes.
SizeInBytes(repo) == repo.size * 1000

\* A threshold is configured and the descriptor's size is strictly greater.
Oversize(repo) ==
    /\ max_repo_size_bytes # None
    /\ SizeInBytes(repo) > max_repo_size_bytes[1]

\* Job i ended, past the size filter, with no collaborator failure.
Undisturbed(i) == Ended(i) /\ ~Oversize(repos[i]) /\ ~w[i].env

\* Both times of the descriptor are RFC 3339 texts.
BothParse(repo) ==
    /\ parse_from_rfc3339(repo.updated_at) # None
    /\ parse_from_rfc3339(repo.pushed_at) # None

RowsOf(cat, id) == {row \in cat : row.id = id}

\* The calls that write nothing.
Reads == {"repo_get", "repo_is_updated"}

OnlyReads(log) == \A k \in 1..Len(log) : log[k] \in Reads

\* C1: a descriptor whose identifier is absent from the catalog when
\* process_repo runs ends as Created, and afterwards exactly one row has that
\* identifier, holding the descriptor's name, description, default branch and
\* derived effective timestamp.
C1_AbsentIsCreated ==
    \A i \in Workers :
        (Undisturbed(i) /\ RowsOf(atStart.catalog, repos[i].id) = {})
        => /\ w[i].outcome = "Created"
           /\ RowsOf(catalog, repos[i].id) = {RepoFrom(repos[i])}

\* C2: a descriptor whose identifier is present and whose derived effective
\* timestamp is strictly after the stored one ends as Refreshed (update, then
\* repo_update), and afterwards the stored timestamp is the derived one.
C2_NewerIsRefreshed ==
    \A i \in Workers : \A row \in RowsOf(atStart.catalog, repos[i].id) :
        ( /\ Undisturbed(i)
          /\ BothParse(repos[i])
          /\ parse_from_rfc3339(row.updated_at[1]) # None
          /\ parse_from_rfc3339(FromUpdatedAt(repos[i]))[1]
                > parse_from_rfc3339(row.updated_at[1])[1] )
        => /\ w[i].outcome = "Refreshed"
           /\ \A now \in RowsOf(catalog, repos[i].id) :
                 now.updated_at = Some(FromUpdatedAt(repos[i]))

\* The case of C3: the identifier is present and the derived effective
\* timestamp equals or precedes the stored one.
NotNewer(i, row) ==
    /\ Undisturbed(i)
    /\ BothParse(repos[i])
    /\ parse_from_rfc3339(row.updated_at[1]) # None
    /\ parse_from_rfc3339(FromUpdatedAt(repos[i]))[1]
          <= parse_from_rfc3339(row.updated_at[1])[1]

\* C3: a descriptor whose identifier is present and whose derived effective
\* timestamp equals or precedes the stored one ends as Unchanged: process_repo
\* made no call but the two catalog reads, and the catalog and the mirrors
\* are what they were.
C3_NotNewerIsUnchanged ==
    \A i \in Workers : \A row \in RowsOf(atStart.catalog, repos[i].id) :
        NotNewer(i, row)
        => /\ w[i].outcome = "Unchanged"
           /\ w[i].log = << "repo_get", "repo_is_updated" >>
           /\ catalog = atStart.catalog
           /\ fs = atStart.fs

\* Reached: a descriptor with the stored instant written with another offset.
C3_Witness ==
    \E i \in Workers : \E row \in RowsOf(atStart.catalog, repos[i].id) :
        /\ NotNewer(i, row)
        /\ FromUpdatedAt(repos[i]) # row.updated_at[1]
        /\ parse_from_rfc3339(FromUpdatedAt(repos[i]))
              = parse_from_rfc3339(row.updated_at[1])
        /\ w[i].outcome = "Unchanged"

\* The case of C4: jobs i and j, for one identifier that was absent, both
\* found it absent and took the Create path.
BothCreate(i, j) ==
    /\ i # j
    /\ repos[i].id = repos[j].id
    /\ RowsOf(atStart.catalog, repos[i].id) = {}
    /\ \A k \in {i, j} :
          /\ Undisturbed(k)
          /\ BothParse(repos[k])
          /\ w[k].cur = None
          /\ Len(w[k].log) > 0

\* C4: of two simultaneous Create attempts for one absent identifier exactly
\* one inserts its CatalogRecord and the other ends as Skipped, never as
\* Failed; the Catalog holds one record for the identifier.
C4_CreateRaceSkips ==
    \A i, j \in Workers :
        BothCreate(i, j)
        => /\ {w[i].outcome, w[j].outcome} = {"Created", "Skipped"}
           /\ Cardinality(RowsOf(catalog, repos[i].id)) = 1

\* The outcomes of a pipeline that ran to its end.
Outcomes == {"Created", "Refreshed", "Unchanged", "Skipped", "Failed"}

FailedJobs == {i \in Workers : w[i].outcome = "Failed"}

C6_SecondRunUnchanged ==
    (again.same /\ again.clean)
    => \A i \in Workers :
          Undisturbed(i)
          => /\ w[i].outcome = "Unchanged"
             /\ OnlyReads(w[i].log)
             /\ fs = atStart.fs
             /\ catalog = atStart.catalog

\* C7: with a threshold configured, a descriptor whose size is strictly
\* greater ends as Skipped, whatever the Catalog holds for it, and
\* process_repo made no call at all: no Catalog read or write, no mirror or
\* file-system change.  A descriptor whose size equals the threshold is not
\* skipped.
C7_SizeFilter ==
    \A i \in Workers :
        /\ (Ended(i) /\ Oversize(repos[i]))
           => /\ w[i].pc = "done"
              /\ w[i].outcome = "Skipped"
              /\ w[i].log = << >>
              /\ catalog = atStart.catalog
              /\ fs = atStart.fs
        /\ ( /\ Ended(i)
             /\ max_repo_size_bytes # None
             /\ SizeInBytes(repos[i]) = max_repo_size_bytes[1] )
           => w[i].outcome # "Skipped"

\* Reached: an oversize descriptor whose identifier is in the Catalog with an
\* older timestamp is skipped.
C7_Witness ==
    \E i \in Workers : \E row \in RowsOf(atStart.catalog, repos[i].id) :
        /\ Ended(i)
        /\ Oversize(repos[i])
        /\ BothParse(repos[i])
        /\ parse_from_rfc3339(row.updated_at[1]) # None
        /\ parse_from_rfc3339(FromUpdatedAt(repos[i]))[1]
              > parse_from_rfc3339(row.updated_at[1])[1]
        /\ w[i].outcome = "Skipped"

\* Repo::from was applied to descriptor probe.arg[1].
FromApplied == probe.fn = "from" /\ probe.out # << >>

\* C8: when both times parse, Repo::from's effective timestamp is the push
\* time if that is strictly later and the update time otherwise; when
\* neither parses, it is the update-time text as it was given.
C8_FromLaterOfTwo ==
    FromApplied
    => LET repo == probe.arg[1]
           u == parse_from_rfc3339(repo.updated_at)
           p == parse_from_rfc3339(repo.pushed_at)
       IN  /\ (u # None /\ p # None)
              => /\ probe.out[1] = "ok"
                 /\ probe.out[2].updated_at =
                       Some(IF p[1] > u[1] THEN repo.pushed_at
                                           ELSE repo.updated_at)
           /\ (u = None /\ p = None)
              => /\ probe.out[1] = "ok"
                 /\ probe.out[2].updated_at = Some(repo.updated_at)

\* Reached: the two times are the same instant written with two offsets.
C8_Witness ==
    /\ FromApplied
    /\ BothParse(probe.arg[1])
    /\ probe.arg[1].pushed_at # probe.arg[1].updated_at
    /\ parse_from_rfc3339(probe.arg[1].pushed_at)
          = parse_from_rfc3339(probe.arg[1].updated_at)
    /\ probe.out[1] = "ok"
    /\ probe.out[2].updated_at = Some(probe.arg[1].updated_at)

\* C9: when exactly one of the two times parses, Repo::from returns and its
\* effective timestamp is the time that parses.
C9_FromFallsBack ==
    FromApplied
    => LET repo == probe.arg[1]
           u == parse_from_rfc3339(repo.updated_at)
           p == parse_from_rfc3339(repo.pushed_at)
       IN  /\ (u # None /\ p = None)
              => /\ probe.out[1] = "ok"
                 /\ probe.out[2].updated_at = Some(repo.updated_at)
           /\ (u = None /\ p # None)
              => /\ probe.out[1] = "ok"
                 /\ probe.out[2].updated_at = Some(repo.pushed_at)

\* update_mtime was applied to mirror probe.arg[1], descriptor probe.arg[2].
MtimeApplied == probe.fn = "update_mtime" /\ probe.out # << >>

\* C10: update_mtime, when it succeeds, set the time on the default branch's
\* ref file if that exists and touched nothing else; on packed-refs only if
\* the ref file does not exist; and only if neither exists wrote the time
\* text into info/web/last-modified.  With the ref file or packed-refs
\* present no age file is created, whether update_mtime succeeds or not.
C10_MtimeResolutionOrder ==
    MtimeApplied
    => LET m == probe.arg[1]
           repo == probe.arg[2]
           out == probe.out[1]
           ref == repo.default_branch \in m.loose
           time == parse_from_rfc3339(repo.pushed_at)
       IN  /\ (out.err = "" /\ ref)
              => /\ out.m = [m EXCEPT !.refMt[repo.default_branch] = time]
                 /\ time # None
           /\ (out.err = "" /\ ~ref /\ m.packed)
              => /\ out.m = [m EXCEPT !.packedMt = time]
                 /\ time # None
           /\ (out.err = "" /\ ~ref /\ ~m.packed)
              => out.m = [m EXCEPT !.webdir = TRUE,
                                   !.agefile = Some(<< repo.pushed_at >>)]
           /\ (ref \/ m.packed)
              => out.m.agefile = m.agefile /\ out.m.webdir = m.webdir

\* Reached: neither file exists and the age file is written.
C10_Witness ==
    /\ MtimeApplied
    /\ probe.arg[2].default_branch \notin probe.arg[1].loose
    /\ ~probe.arg[1].packed
    /\ probe.arg[1].agefile = None
    /\ probe.out[1].err = ""
    /\ probe.out[1].m.agefile = Some(<< probe.arg[2].pushed_at >>)

\* The run ended at a step before the jobs.
Aborted ==
    /\ phase = "exited"
    /\ \E k \in 1..Len(result.errors) : result.errors[k] \in RunSteps

\* The repositories whose sync did not end in one of the four outcomes.
NotSynced ==
    {i \in Workers : w[i].outcome \notin {"Created", "Refreshed", "Unchanged",
                                          "Skipped"}}

\* C11: the process exits non-zero exactly when a repository's sync failed
\* or a step of the run before the jobs failed; when every repository ended
\* as Created, Refreshed, Unchanged or Skipped the run returns Ok; and the
\* error of every repository that failed is reported.
C11_ExitAndReport ==
    phase = "exited"
    => /\ (exit(result) # 0) <=> (NotSynced # {} \/ Aborted)
       /\ (~Aborted /\ NotSynced = {}) => result.kind = "ok"
       /\ \A i \in FailedJobs : \E k \in 1..Len(result.errors) :
             result.errors[k] = repos[i].name

\* C12: a run that ended at fetch_repos, Db::connect or Db::create (or at the
\* options) made no process_repo call, and the Catalog and the mirrors are
\* what they were when it began.
C12_AbortBeforeJobs ==
    Aborted
    => /\ w = << >>
       /\ Len(result.errors) = 1
       /\ catalog = atStart.catalog
       /\ fs = atStart.fs

\* Reached: a run aborts at Db::create on a Catalog an earlier run filled.
C12_Witness ==
    /\ Aborted
    /\ result.errors = << "create" >>
    /\ catalog # {}
    /\ w = << >>

\* The calls that write the Catalog.
Writes == {"repo_insert", "repo_update"}

\* The step of the pipeline a call belongs to: 1 the catalog lookup, 2 the
\* mirror mutation (with the metadata projection), 3 the catalog write.
Stage(op) == IF op \in Reads THEN 1 ELSE IF op \in Writes THEN 3 ELSE 2

\* The error of job i was returned by mirror() or update().
MutationFailed(i) == w[i].err \notin {"", "db", "constraint"}

\* C13: the calls of one pipeline come in the order lookup, mirror mutation,
\* catalog write, after the size check (a skipped descriptor made no call);
\* the write is the last call and follows a mirror mutation; a job whose
\* mirror, update or projection step returned an error ended there and never
\* executed repo_insert or repo_update, so its Catalog row is what it was.
C13_StepsInOrder ==
    \A i \in Workers :
        LET log == w[i].log
        IN  /\ \A j, k \in 1..Len(log) :
                  j < k => Stage(log[j]) <= Stage(log[k])
            /\ Len(log) > 0 => log[1] = "repo_get"
            /\ w[i].outcome = "Skipped" => log = << >>
            /\ \A k \in 1..Len(log) :
                  log[k] \in Writes
                  => /\ k = Len(log)
                     /\ \E j \in 1..(k - 1) : Stage(log[j]) = 2
            /\ w[i].err # "" => w[i].pc = "done" /\ w[i].outcome = "Failed"
            /\ MutationFailed(i)
               => /\ \A k \in 1..Len(log) : log[k] \notin Writes
                  /\ RowsOf(catalog, repos[i].id)
                        = RowsOf(atStart.catalog, repos[i].id)

\* Reached: Refresh fails at the fetch and the row keeps the old timestamp.
C13_Witness ==
    \E i \in Workers : \E row \in RowsOf(catalog, repos[i].id) :
        /\ w[i].err = "UpdateFetch"
        /\ w[i].outcome = "Failed"
        /\ row.updated_at # Some(FromUpdatedAt(repos[i]))
        /\ w[i].log = << "repo_get", "repo_is_updated", "git_update" >>

\* Job i called git::mirror or git::update on its clone path.
Touched(i) ==
    \E k \in 1..Len(w[i].log) : w[i].log[k] \in {"git_mirror", "git_update"}

\* C14: two descriptors of one run with distinct identifiers have distinct
\* clone paths, so no two jobs of a run touch the same mirror directory; a
\* fork and a non-fork of one name have distinct paths.
C14_OneWorkerPerMirror ==
    \A i, j \in Workers :
        /\ repos[i].id # repos[j].id
           => clone_path(repos[i]) # clone_path(repos[j])
        /\ (i # j /\ Touched(i) /\ Touched(j))
           => clone_path(repos[i]) # clone_path(repos[j])
        /\ (repos[i].name = repos[j].name /\ repos[i].fork # repos[j].fork)
           => clone_path(repos[i]) # clone_path(repos[j])

\* The Catalog holds at most one record per identifier.
UniqueIdentifiers ==
    \A r1, r2 \in catalog : r1.id = r2.id => r1 = r2

\* The last catalog call was fn, on a Catalog that held the record's
\* identifier (present) or did not.
Called(fn, present) ==
    /\ probe.fn = fn
    /\ (RowsOf(atStart.catalog, probe.arg[1].id) # {}) = present

\* C15: in every reachable state the Catalog holds at most one record per
\* identifier, and a repo_insert for an identifier that is present fails with
\* the constraint error and leaves the Catalog, the existing record
\* included, as it was.
C15_UniqueIdentifier ==
    /\ UniqueIdentifiers
    /\ Called("repo_insert", TRUE)
       => /\ probe.out = << "err", "constraint" >>
          /\ catalog = atStart.catalog

\* Reached: an insert of another record for a present identifier is refused.
C15_Witness ==
    /\ Called("repo_insert", TRUE)
    /\ probe.arg[1] \notin catalog
    /\ probe.out[1] = "err"
    /\ Cardinality(catalog) = 2

\* C16: repo_update for an identifier that is absent fails with NotFound and
\* leaves the Catalog as it was; for one that is present it succeeds, the
\* record of that identifier becomes the given one (name, description,
\* default branch, timestamp) and every other record is as it was.
C16_ReplaceOrNotFound ==
    /\ Called("repo_update", FALSE)
       => /\ probe.out = << "err", "NotFound" >>
          /\ catalog = atStart.catalog
    /\ Called("repo_update", TRUE)
       => /\ probe.out = << "ok" >>
          /\ RowsOf(catalog, probe.arg[1].id) = {probe.arg[1]}
          /\ \A row \in atStart.catalog \cup catalog :
                row.id # probe.arg[1].id
                => (row \in catalog <=> row \in atStart.catalog)

\* The instant of a time text in milliseconds, and in whole seconds.
Millis(text) == parse_from_rfc3339(text)[1]
Seconds(text) == Millis(text) \div 1000

\* A record of the candidate's identifier exists, both timestamps are
\* RFC 3339 texts, and Less holds of the stored and the candidate's.
StoredBefore(Less(_, _)) ==
    \E row \in catalog :
        /\ row.id = probe.arg[1].id
        /\ parse_from_rfc3339(row.updated_at[1]) # None
        /\ parse_from_rfc3339(probe.arg[1].updated_at[1]) # None
        /\ Less(row.updated_at[1], probe.arg[1].updated_at[1])

EarlierInstant(a, b) == Millis(a) < Millis(b)
EarlierSecond(a, b) == Seconds(a) < Seconds(b)

PassedThrough(i) ==
    /\ Undisturbed(i)
    /\ parse_from_rfc3339(repos[i].updated_at) = None
    /\ parse_from_rfc3339(repos[i].pushed_at) = None

\* Job i found its identifier absent and went on to mirror().
TookCreate(i) ==
    /\ w[i].cur = None
    /\ Len(w[i].log) >= 2
    /\ w[i].log[1] = "repo_get"
    /\ w[i].log[2] = "git_mirror"

Projected(m, b, text) ==
    IF b \in m.loose THEN m.refMt[b] = parse_from_rfc3339(text)
    ELSE IF m.packed THEN m.packedMt = parse_from_rfc3339(text)
    ELSE m.agefile = Some(<< text >>)

\* Job i ended undisturbed in Create or Refresh: its projection succeeded.
Synced(i) == Undisturbed(i) /\ w[i].outcome \in {"Created", "Refreshed"}

\* C19 as stated: the time projected by Create and by Refresh is the derived
\* effective timestamp, the one written to the catalog; and when that
\* timestamp can be derived, the projection does not fail at parsing.
C19_ProjectsEffectiveTime ==
    \A i \in Workers :
        /\ Synced(i)
           => Projected(fs[clone_path(repos[i])], repos[i].default_branch,
                        RepoFrom(repos[i]).updated_at[1])
        /\ (Undisturbed(i) /\ ~FromPanics(repos[i]))
           => w[i].err # "parse_pushed_at"

\* C19: the time projected by Create and by Refresh is the descriptor's push
\* time, whichever of the two times is written to the catalog; a projection
\* fails at parsing only for a push time that is no timestamp, and with such a
\* push time neither Create nor Refresh succeeds.
C19_ProjectsPushTime ==
    \A i \in Workers :
        /\ Synced(i)
           => /\ Projected(fs[clone_path(repos[i])], repos[i].default_branch,
                           repos[i].pushed_at)
              /\ parse_from_rfc3339(repos[i].pushed_at) # None
        /\ (Ended(i) /\ w[i].err = "parse_pushed_at")
           => parse_from_rfc3339(repos[i].pushed_at) = None

\* Reached: the update time is the later one and is in the catalog, and the
\* mirror shows the push time.
C19_Witness ==
    \E i \in Workers :
        /\ Synced(i)
        /\ repos[i].updated_at = Late
        /\ repos[i].pushed_at = Early
        /\ \E row \in RowsOf(catalog, repos[i].id) : row.updated_at = Some(Late)
        /\ Projected(fs[clone_path(repos[i])], repos[i].default_branch, Early)

\* Job i's projection came to set_agefile_time: the mirror had neither the
\* default branch's ref file nor packed-refs.
AgeFallback(i) ==
    /\ Undisturbed(i)
    /\ \E k \in 1..Len(w[i].log) : w[i].log[k] = "agefile"

\* C20: a projection that falls back to the age file succeeds, also when
\* info/web/last-modified exists from an earlier projection, and leaves in it
\* exactly the time text projected last.
C20_AgeRecordOverwrites ==
    \A i \in Workers :
        AgeFallback(i)
        => /\ w[i].err = ""
           /\ fs[clone_path(repos[i])].agefile = Some(<< repos[i].pushed_at >>)

\* The last call job i made, and whether it made call `op`.
LastCall(i) == w[i].log[Len(w[i].log)]
Made(i, op) == \E k \in 1..Len(w[i].log) : w[i].log[k] = op

\* Job i left the age record of its mirror as the run found it.
AgeRecordKept(i) ==
    LET now == fs[clone_path(repos[i])]
        before == atStart.fs[clone_path(repos[i])]
    IN  now.webdir = before.webdir /\ now.agefile = before.agefile

\* The run reported the failure of job i.
Reported(i) ==
    phase = "exited"
    => /\ result.kind = "err"
       /\ \E k \in 1..Len(result.errors) : result.errors[k] = repos[i].name

\* C21: in update_mtime an error other than not-found at the ref file ends
\* the projection there: packed-refs and the age record are not tried; one at
\* packed-refs ends it there: the age record is not tried.  The error is
\* returned: the job's outcome is Failed, the catalog is not written and the
\* run reports the repository.
C21_MtimeErrorIsFatal ==
    \A i \in Workers :
        /\ (Ended(i) /\ w[i].err = "ref")
           => /\ LastCall(i) = "set_ref_mtime"
              /\ ~Made(i, "set_packed_mtime")
              /\ ~Made(i, "agefile")
              /\ fs[clone_path(repos[i])].packedMt = None
              /\ AgeRecordKept(i)
              /\ w[i].outcome = "Failed"
              /\ catalog = atStart.catalog
              /\ Reported(i)
        /\ (Ended(i) /\ w[i].err = "packed")
           => /\ LastCall(i) = "set_packed_mtime"
              /\ ~Made(i, "agefile")
              /\ fs[clone_path(repos[i])].packedMt = None
              /\ AgeRecordKept(i)
              /\ w[i].outcome = "Failed"
              /\ catalog = atStart.catalog
              /\ Reported(i)

\* Reached: the ref-file step failed on a mirror whose packed-refs exists, and
\* the run ended.
C21_Witness ==
    \E i \in Workers :
        /\ Ended(i)
        /\ w[i].err = "ref"
        /\ fs[clone_path(repos[i])].packed
        /\ w[i].outcome = "Failed"
        /\ phase = "exited"

IsPrefix(a, b) == Len(a) <= Len(b) /\ SubSeq(b, 1, Len(a)) = a

\* The calls update_mtime can make, by how far it falls back.
MtimeCalls ==
    { << "set_ref_mtime" >>,
      << "set_ref_mtime", "set_packed_mtime" >>,
      << "set_ref_mtime", "set_packed_mtime", "agefile" >> }

DescriptionChanged(i) == description(w[i].cur[1]) # description(repos[i])

BranchChanged(i) ==
    /\ w[i].cur[1].default_branch # None
    /\ w[i].cur[1].default_branch[1] # repos[i].default_branch

\* The calls of a whole Refresh of job i, in their order.
RefreshCalls(i, mtime) ==
    << "repo_get", "repo_is_updated", "git_update" >>
    \o (IF DescriptionChanged(i) THEN << "update_description" >> ELSE << >>)
    \o (IF BranchChanged(i)
        THEN << "change_current_branch", "cgitrc_defbranch" >> ELSE << >>)
    \o mtime
    \o << "repo_update" >>

\* C22: the calls of a Refresh are made in one order: the fetch; the
\* description if it changed; HEAD and then the sidecar's defbranch if the
\* default branch changed; the time projection in every case; and repo_update
\* last, only when no call before it failed.
C22_RefreshOrder ==
    \A i \in Workers :
        Made(i, "git_update")
        => /\ \E mtime \in MtimeCalls : IsPrefix(w[i].log, RefreshCalls(i, mtime))
           /\ w[i].outcome = "Refreshed"
              => /\ \E mtime \in MtimeCalls : w[i].log = RefreshCalls(i, mtime)
                 /\ w[i].err = ""
           /\ Made(i, "repo_update")
              => /\ LastCall(i) = "repo_update"
                 /\ Made(i, "set_ref_mtime")

\* Reached: a Refresh that changed the description and the default branch.
C22_Witness ==
    \E i \in Workers :
        /\ w[i].outcome = "Refreshed"
        /\ DescriptionChanged(i)
        /\ BranchChanged(i)
        /\ Made(i, "set_ref_mtime")

\* C23: a Refresh rewrites the description file only if the descriptor's
\* description differs from the current one (an absent one is the empty
\* string) and not when they are equal; after a successful Create or Refresh
\* the mirror's description file holds the descriptor's description, and is
\* empty for an absent one.
C23_DescriptionReconciled ==
    \A i \in Workers :
        /\ Made(i, "update_description") => DescriptionChanged(i)
        /\ Synced(i)
           => fs[clone_path(repos[i])].description = description(repos[i])

\* run() returned Ok or the collected errors, and every job of the list ended
\* in one outcome.
Completed ==
    /\ phase = "exited"
    /\ result.kind \in {"ok", "err"}
    /\ \A i \in Workers : w[i].pc = "done" /\ w[i].outcome \in Outcomes

\* C24: run() has a result only once every job of the list ended, and a run
\* that began its jobs gets there: every descriptor has one outcome and
\* run() returns.
C24_RunCompletes ==
    /\ [](result.kind \in {"ok", "err"} => Completed)
    /\ (phase = "running") ~> Completed

\* The calls of a whole Create of job i, in their order.
CreateCalls(i, mtime) ==
    << "repo_get", "git_mirror" >>
    \o (IF base_cgitrc THEN << "copy_cgitrc" >> ELSE << >>)
    \o (IF repos[i].default_branch # "master"
        THEN << "cgitrc_defbranch" >> ELSE << >>)
    \o mtime
    \o << "repo_insert" >>

\* What every step of a Create for descriptor `repo` leaves in mirror m.
WhollyMirrored(m, repo) ==
    /\ m.init
    /\ m.hasRemote
    /\ m.head = repo.default_branch
    /\ base_cgitrc => (Len(m.cgitrc) >= 1 /\ m.cgitrc[1] = "base")
    /\ repo.default_branch # "master"
       => (Len(m.cgitrc) >= 1
           /\ m.cgitrc[Len(m.cgitrc)] = DefbranchLine(repo.default_branch))
    /\ Projected(m, repo.default_branch, repo.pushed_at)

Identifiers(cat) == {row.id : row \in cat}

\* C25: the catalog gets a record for an identifier only from a Create that
\* made every call without an error (git mirror, the copy of the base cgitrc
\* if one is given, the defbranch line for a branch other than master, the
\* time projection) and left the mirror whole; and every record's mirror
\* directory is a repository with its remote: none is absent or stopped
\* short by a failed Create.
C25_RecordOnlyAfterWholeCreate ==
    /\ Identifiers(catalog)
          \subseteq Identifiers(atStart.catalog)
                    \cup {repos[i].id : i \in {j \in Workers :
                                                  w[j].outcome = "Created"}}
    /\ \A i \in Workers :
          w[i].outcome = "Created"
          => /\ \E mtime \in MtimeCalls : w[i].log = CreateCalls(i, mtime)
             /\ w[i].err = ""
             /\ WhollyMirrored(fs[clone_path(repos[i])], repos[i])
    /\ \A i \in Workers :
          (w[i].outcome = "Failed" /\ Made(i, "git_mirror"))
          => repos[i].id \notin Identifiers(catalog)
    /\ \A row \in catalog : \E path \in Paths :
          /\ path.git_dir = row.name[1]
          /\ fs[path].init
          /\ fs[path].hasRemote

\* Reached: a Create, with a base cgitrc and a default branch other than
\* master, that followed a Create which failed after making the directory;
\* the record is there.
C25_Witness ==
    \E i \in Workers :
        /\ w[i].outcome = "Created"
        /\ base_cgitrc
        /\ repos[i].default_branch = "main"
        /\ atStart.fs[clone_path(repos[i])].init
        /\ repos[i].id \in Identifiers(catalog)

\* What process_repo decides for descriptor `repo` on catalog `cat` when its
\* two reads succeed.
Decision(cat, repo) ==
    IF repo_get(cat, repo.id) = None THEN "Create"
    ELSE IF repo_is_updated(cat, RepoFrom(repo)) THEN "Refresh"
    ELSE "Unchanged"

FailedCreate(i) == w[i].outcome = "Failed" /\ Made(i, "git_mirror")
FailedRefresh(i) == w[i].outcome = "Failed" /\ Made(i, "git_update")

\* A read of the catalog by job i failed.
ReadFailed(i) == w[i].err = "db" /\ LastCall(i) \in Reads

\* C26: a job that failed has left the catalog as the run found it.  After a
\* failed Create the identifier is absent, and process_repo on the same
\* descriptor decides Create; after a failed Refresh the record is the one
\* found (timestamp, description, default branch), and process_repo on the
\* same descriptor decides Refresh, never Unchanged.  Every run goes where
\* that decision on the catalog it found says: into mirror() for Create, into
\* update() for Refresh.
C26_FailureRecurs ==
    \A i \in Workers :
        /\ w[i].outcome = "Failed" => catalog = atStart.catalog
        /\ FailedCreate(i)
           => /\ repos[i].id \notin Identifiers(catalog)
              /\ Decision(catalog, repos[i]) = "Create"
        /\ FailedRefresh(i)
           => /\ RowsOf(catalog, repos[i].id) = {w[i].cur[1]}
              /\ Decision(catalog, repos[i]) = "Refresh"
        /\ Made(i, "git_mirror")
           => Decision(atStart.catalog, repos[i]) = "Create"
        /\ Made(i, "git_update")
           => Decision(atStart.catalog, repos[i]) = "Refresh"
        /\ (Ended(i) /\ Made(i, "repo_get") /\ ~ReadFailed(i))
           => /\ Decision(atStart.catalog, repos[i]) = "Create"
                 => Made(i, "git_mirror")
              /\ Decision(atStart.catalog, repos[i]) = "Refresh"
                 => Made(i, "git_update")
        /\ w[i].outcome = "Unchanged"
           => Decision(atStart.catalog, repos[i]) = "Unchanged"

\* Reached: an invocation with the list of the one before, in which the
\* Refresh failed after it wrote the description; the record is the old one
\* and update() is entered again.
C26_Witness ==
    \E i \in Workers :
        /\ runs = 2
        /\ again.same
        /\ Made(i, "git_update")
        /\ description(w[i].cur[1]) = ""
        /\ atStart.fs[clone_path(repos[i])].description = "d"
        /\ description(repos[i]) = "d"
        /\ RowsOf(catalog, repos[i].id) = {RepoFrom(Mirrored)}

=============================================================================
